---- MODULE Spec2Model ----
(***************************************************************************)
(* Model of extract_frames (tune.py): the frame sampling loop with the     *)
(* black/white filter and the perceptual-hash duplicate filter.            *)
(*                                                                         *)
(* A frame is abstracted to what the loop reads from it: its average       *)
(* brightness (cv2.mean of the grayscale image) and its fingerprint        *)
(* (hash_func), a bit vector given as the set of its 1-bit positions.      *)
(***************************************************************************)
EXTENDS Integers, Sequences, FiniteSets

\* ---------------------------------------------------------------- bounds
MaxFrames == 3          \* longest stream explored
HashBits == 2           \* fingerprint length in bits (hash_size squared)

\* ------------------------------------------------------------- constants
white_threshold == 225
default_black_white_threshold == 10

\* ---------------------------------------------------------------- inputs
\* frame_interval values: two valid strides, zero and a negative one
Strides == {-2, 0, 1, 2}
\* hash_diff_threshold values
Thresholds == {0, 1, 2}
\* black_white_threshold values: the default, and one above white_threshold
BlackThresholds == {default_black_white_threshold, 230}
\* average brightness samples: mid-gray (below 230, not below 10) and bright
LumaSamples == {128, 240}

Fingerprints == SUBSET (1..HashBits)
Frames == [luma : LumaSamples, hash : Fingerprints]
Configs == [frame_interval : Strides,
            hash_diff_threshold : Thresholds,
            black_white_threshold : BlackThresholds]

\* previous_hash is None or one fingerprint
None == <<>>
Some(h) == <<h>>

VARIABLES cfg, pc, source, reads, frame_index, saved_frame_count,
          previous_hash, files, log

vars == <<cfg, pc, source, reads, frame_index, saved_frame_count,
          previous_hash, files, log>>

\* ------------------------------------------------------- pure functions

\* Python's a % b for a >= 0 and b # 0 (the result takes the divisor's sign)
PyMod(a, b) == IF b > 0 THEN a % b ELSE 0 - ((0 - a) % (0 - b))

\* every frame is sampled (the stride test is dropped)
IsSampledAlways(index, interval) == TRUE

\* frame_index % frame_interval == 0
IsSampled(index, interval) == PyMod(index, interval) = 0

\* average_brightness < threshold or average_brightness > white_threshold
is_mostly_black_or_white(average_brightness, threshold, white) ==
    average_brightness < threshold \/ average_brightness > white

\* current_hash - previous_hash: number of differing bits
HashDiff(a, b) == Cardinality((a \ b) \cup (b \ a))

\* duplicate test with <= in place of <
IsDuplicateLE(prev, current_hash, threshold) ==
    prev # None /\ HashDiff(current_hash, prev[1]) <= threshold

\* duplicate test with the comparison inverted
IsDuplicateGT(prev, current_hash, threshold) ==
    prev # None /\ HashDiff(current_hash, prev[1]) > threshold

\* duplicate test that lets an identical fingerprint through
IsDuplicateNonZero(prev, current_hash, threshold) ==
    /\ prev # None
    /\ HashDiff(current_hash, prev[1]) > 0
    /\ HashDiff(current_hash, prev[1]) < threshold

\* previous_hash is not None and hash_diff < hash_diff_threshold
IsDuplicate(prev, current_hash, threshold) ==
    prev # None /\ HashDiff(current_hash, prev[1]) < threshold

\* the hash_diff printed with the duplicate report; -1 when none is computed
ReportedDiff(prev, current_hash) ==
    IF prev = None THEN -1 ELSE HashDiff(current_hash, prev[1])

\* should_save after both filters
ShouldSave(is_dup, is_black_or_white) == ~is_dup /\ ~is_black_or_white

\* baseline moves only when the frame was saved
NextPreviousHashKept(prev, current_hash, should_save, is_bw) ==
    IF should_save THEN Some(current_hash) ELSE prev

\* baseline moves only for frames that pass the brightness filter
NextPreviousHashBright(prev, current_hash, should_save, is_bw) ==
    IF is_bw THEN prev ELSE Some(current_hash)

\* previous_hash = current_hash, whatever the outcome
NextPreviousHash(prev, current_hash, should_save, is_bw) ==
    Some(current_hash)

\* ------------------------------------------------------------- the state

Init ==
    /\ cfg \in Configs
    /\ pc = "start"
    /\ source = "ok"
    /\ reads = 0
    /\ frame_index = 0
    /\ saved_frame_count = 0
    /\ previous_hash = None
    /\ files = {}
    /\ log = <<>>

\* ------------------------------------------------------------ operations

\* cv2.VideoCapture(video_path) succeeds: the loop is entered
Open ==
    /\ pc = "start"
    /\ pc' = "scanning"
    /\ UNCHANGED <<cfg, source, reads, frame_index, saved_frame_count,
                   previous_hash, files, log>>

\* not cap.isOpened(): "Error: Could not open video." and return
OpenFail ==
    /\ pc = "start"
    /\ pc' = "open_failed"
    /\ UNCHANGED <<cfg, source, reads, frame_index, saved_frame_count,
                   previous_hash, files, log>>

\* one iteration on a sampled frame; write_ok is the result of cv2.imwrite
ReadSampled(frame, write_ok) ==
    /\ pc = "scanning"
    /\ frame_index < MaxFrames
    /\ cfg.frame_interval # 0
    /\ IsSampled(frame_index, cfg.frame_interval)
    /\ frame \in Frames
    /\ write_ok \in BOOLEAN
    /\ LET is_black_or_white ==
               is_mostly_black_or_white(frame.luma, cfg.black_white_threshold,
                                        white_threshold)
           current_hash == frame.hash
           is_dup == IsDuplicate(previous_hash, current_hash,
                                 cfg.hash_diff_threshold)
           should_save == ShouldSave(is_dup, is_black_or_white)
       IN /\ log' = Append(log, [index |-> frame_index,
                                 frame |-> frame,
                                 dup |-> is_dup,
                                 hash_diff |-> ReportedDiff(previous_hash,
                                                            current_hash),
                                 bw |-> is_black_or_white,
                                 should_save |-> should_save,
                                 written |-> should_save /\ write_ok])
          /\ files' = IF should_save /\ write_ok
                      THEN files \cup {frame_index} ELSE files
          /\ saved_frame_count' = IF should_save THEN saved_frame_count + 1
                                  ELSE saved_frame_count
          /\ previous_hash' = NextPreviousHash(previous_hash, current_hash,
                                               should_save, is_black_or_white)
    /\ frame_index' = frame_index + 1
    /\ reads' = reads + 1
    /\ UNCHANGED <<cfg, pc, source>>

\* one iteration on a frame between two samples
ReadSkipped(frame) ==
    /\ pc = "scanning"
    /\ frame_index < MaxFrames
    /\ cfg.frame_interval # 0
    /\ ~IsSampled(frame_index, cfg.frame_interval)
    /\ frame \in Frames
    /\ frame_index' = frame_index + 1
    /\ reads' = reads + 1
    /\ UNCHANGED <<cfg, pc, source, saved_frame_count, previous_hash,
                   files, log>>

\* frame_index % 0 raises ZeroDivisionError on the first frame read
ZeroDivision ==
    /\ pc = "scanning"
    /\ frame_index < MaxFrames
    /\ cfg.frame_interval = 0
    /\ pc' = "crashed"
    /\ reads' = reads + 1
    /\ UNCHANGED <<cfg, source, frame_index, saved_frame_count,
                   previous_hash, files, log>>

\* cap.read() returns ret = False at the end of the stream: break
EndOfStream ==
    /\ pc = "scanning"
    /\ pc' = "done"
    /\ source' = "eos"
    /\ reads' = reads + 1
    /\ UNCHANGED <<cfg, frame_index, saved_frame_count, previous_hash,
                   files, log>>

\* a failed read that is skipped instead of ending the loop
DecodeFailureContinue ==
    /\ pc = "scanning"
    /\ frame_index < MaxFrames
    /\ source' = "error"
    /\ frame_index' = frame_index + 1
    /\ reads' = reads + 1
    /\ UNCHANGED <<cfg, pc, saved_frame_count, previous_hash, files, log>>

\* cap.read() returns ret = False because a frame cannot be decoded: break
DecodeFailure ==
    /\ pc = "scanning"
    /\ frame_index < MaxFrames
    /\ pc' = "done"
    /\ source' = "error"
    /\ reads' = reads + 1
    /\ UNCHANGED <<cfg, frame_index, saved_frame_count, previous_hash,
                   files, log>>

Next ==
    \/ Open
    \/ OpenFail
    \/ \E frame \in Frames, write_ok \in BOOLEAN : ReadSampled(frame, write_ok)
    \/ \E frame \in Frames : ReadSkipped(frame)
    \/ ZeroDivision
    \/ EndOfStream
    \/ DecodeFailure

Spec == Init /\ [][Next]_vars

\* a configuration the loop runs to its end with: a positive stride and a
\* black threshold below the white one
ValidConfig(c) ==
    c.frame_interval > 0 /\ c.black_white_threshold < white_threshold

\* the valid configurations with the threshold under which all three
\* outcomes of a frame occur; the threshold is read at line 71 only and
\* decides nothing about the loop's control
InitValid == Init /\ ValidConfig(cfg) /\ cfg.hash_diff_threshold = 2

NextValid ==
    \/ Open
    \/ OpenFail
    \/ \E frame \in Frames, write_ok \in BOOLEAN : ReadSampled(frame, write_ok)
    \/ \E frame \in Frames : ReadSkipped(frame)
    \/ EndOfStream
    \/ DecodeFailure

\* the loop is one thread that always takes its next step
FairSpec == InitValid /\ [][NextValid]_vars /\ WF_vars(NextValid)

\* ------------------------------------------------- verdicts read off the log

Kept(e) == e.should_save /\ ~e.dup /\ ~e.bw
SkippedDuplicate(e) == e.dup /\ ~e.should_save
SkippedDegenerate(e) == e.bw /\ ~e.should_save

NonDegenerate(f) ==
    ~is_mostly_black_or_white(f.luma, cfg.black_white_threshold, white_threshold)

LastEntry == log[Len(log)]

\* ------------------------------------------------------------------- C1
\* C1: with a stride K > 0, a frame whose index is not a multiple of K leaves
\* previous_hash, saved_frame_count, the saved files and the reports
\* unchanged and only advances frame_index by one; every reported frame has
\* an index that is a multiple of K.
C1_StrideCorrectness ==
    [][(cfg.frame_interval > 0 /\ frame_index' # frame_index)
         => /\ frame_index' = frame_index + 1
            /\ (frame_index % cfg.frame_interval # 0
                  => UNCHANGED <<previous_hash, saved_frame_count, files, log>>)
            /\ \A i \in 1..Len(log') :
                   log'[i].index % cfg.frame_interval = 0]_vars

C1_Witness ==
    /\ cfg.frame_interval = 2
    /\ frame_index = 3
    /\ Len(log) = 2
    /\ log[1].index = 0 /\ log[2].index = 2

\* ------------------------------------------------------------------- C2
AllIdentical == \A i, j \in 1..Len(log) : log[i].frame = log[j].frame

IdenticalVideo ==
    /\ cfg.frame_interval = 1
    /\ Len(log) >= 1
    /\ AllIdentical
    /\ NonDegenerate(log[1].frame)

FirstKeptRestDuplicates ==
    \A i \in 1..Len(log) :
        IF i = 1 THEN Kept(log[i])
        ELSE SkippedDuplicate(log[i]) /\ ~log[i].bw /\ log[i].hash_diff = 0

\* C2 as stated: identical non-degenerate frames, stride 1, any threshold:
\* the first frame is Kept and every other one is SkippedDuplicate with
\* distance 0.
C2_AnyThreshold == IdenticalVideo => FirstKeptRestDuplicates

\* C2: identical non-degenerate frames, stride 1 and a threshold above 0:
\* the first frame is Kept and every other one is SkippedDuplicate with
\* distance 0.
C2_PositiveThreshold ==
    (IdenticalVideo /\ cfg.hash_diff_threshold > 0) => FirstKeptRestDuplicates

C2_Witness ==
    /\ IdenticalVideo
    /\ cfg.hash_diff_threshold > 0
    /\ Len(log) = MaxFrames
    /\ pc = "done"
    /\ saved_frame_count = 1

\* ------------------------------------------------------------------- C3
Alternates(A, B) ==
    \A i \in 1..Len(log) : log[i].frame = IF i % 2 = 1 THEN A ELSE B

\* the frames read so far alternate between A, the first one, and B, the
\* second one
AlternatingVideo ==
    /\ cfg.frame_interval = 1
    /\ Len(log) >= 1
    /\ LET A == log[1].frame
           B == log[IF Len(log) >= 2 THEN 2 ELSE 1].frame
       IN /\ NonDegenerate(A) /\ NonDegenerate(B)
          /\ Len(log) >= 2
                => HashDiff(A.hash, B.hash) > cfg.hash_diff_threshold
          /\ Alternates(A, B)

\* C3: a video alternating between two non-degenerate frames whose distance
\* exceeds the threshold, stride 1: every sampled frame is Kept.
C3_AlternatingAllKept ==
    AlternatingVideo => \A i \in 1..Len(log) : Kept(log[i])

C3_Witness ==
    /\ AlternatingVideo
    /\ Len(log) >= 3
    /\ log[3].frame = log[1].frame
    /\ log[1].should_save /\ log[3].should_save
    /\ saved_frame_count = Len(log)

\* ------------------------------------------------------------------- C4
ReportCount(e) ==
    (IF e.should_save THEN 1 ELSE 0) + (IF e.dup THEN 1 ELSE 0)
      + (IF e.bw THEN 1 ELSE 0)

\* C4: every sampled frame gets exactly one of Kept, SkippedDuplicate and
\* SkippedDegenerate, and a degenerate frame gets no duplicate report.
C4_OneVerdict ==
    \A i \in 1..Len(log) :
        ReportCount(log[i]) = 1 /\ (log[i].bw => ~log[i].dup)

\* ------------------------------------------------------------------- C5
InvalidConfig ==
    cfg.frame_interval <= 0 \/ cfg.black_white_threshold >= white_threshold

\* C5: with an invalid configuration no video is opened, no frame is read
\* and no image is saved.
C5_InvalidRejected ==
    InvalidConfig => (pc = "start" /\ reads = 0 /\ files = {})

\* ------------------------------------------------------------------- C6
\* C6: a failed write is not counted: at Done the kept count is the number
\* of images persisted, and every counted frame was written.
C6_CountIsPersisted ==
    /\ pc = "done" => saved_frame_count = Cardinality(files)
    /\ \A i \in 1..Len(log) : log[i].should_save => log[i].written

C8_BaselineIsLastSampled ==
    IF Len(log) = 0 THEN previous_hash = None
    ELSE previous_hash = Some(LastEntry.frame.hash)

C8_Witness ==
    /\ Len(log) >= 2
    /\ log[1].should_save
    /\ SkippedDegenerate(LastEntry)
    /\ LastEntry.frame.hash # log[1].frame.hash
    /\ \A i \in 2..Len(log) : ~log[i].should_save

\* ------------------------------------------------------------------- C9
\* C9: the first sampled frame has index 0, is never a duplicate and is kept
\* iff it is not degenerate; a later sampled frame is a duplicate iff its
\* distance to the stored previous fingerprint is strictly below the
\* threshold.
C9_DuplicateGate ==
    [][Len(log') = Len(log) + 1
         => LET e == log'[Len(log')]
            IN /\ (e.index = 0) <=> (previous_hash = None)
               /\ previous_hash = None
                    => ~e.dup /\ (e.should_save <=> NonDegenerate(e.frame))
               /\ previous_hash # None
                    => (e.dup <=> HashDiff(e.frame.hash, previous_hash[1])
                                    < cfg.hash_diff_threshold)]_vars

C9_Witness ==
    /\ Len(log) >= 2
    /\ LastEntry.hash_diff = cfg.hash_diff_threshold
    /\ cfg.hash_diff_threshold > 0
    /\ ~LastEntry.dup
    /\ log[1].should_save

\* ------------------------------------------------------------------ C10
\* a run: entries a+1..b after the kept entry a, all non-degenerate, each
\* closer than the threshold to its immediate predecessor
NearRun(a, b) ==
    /\ a < b
    /\ log[a].should_save
    /\ \A i \in (a + 1)..b :
          /\ NonDegenerate(log[i].frame)
          /\ HashDiff(log[i].frame.hash, log[i - 1].frame.hash)
               < cfg.hash_diff_threshold

Drifted(a, b) ==
    HashDiff(log[b].frame.hash, log[a].frame.hash) >= cfg.hash_diff_threshold

\* C10 as stated: a run that drifts to distance >= T from the last kept frame
\* has no frame flagged as a duplicate.
C10_DriftUnflagged ==
    \A a, b \in 1..Len(log) :
        (NearRun(a, b) /\ Drifted(a, b))
          => \A i \in (a + 1)..b : ~log[i].dup

\* C10: every frame of a run is flagged as a duplicate and none is kept,
\* also when the run has drifted to distance >= T from the last kept frame.
C10_DriftAllSkipped ==
    \A a, b \in 1..Len(log) :
        NearRun(a, b) => \A i \in (a + 1)..b : SkippedDuplicate(log[i])

C10_Witness ==
    \E a, b \in 1..Len(log) :
        /\ NearRun(a, b)
        /\ Drifted(a, b)
        /\ SkippedDuplicate(log[b])

====
